---- MODULE Spec2Model ----
(***************************************************************************)
(* Queue-management backend: ticket lifecycle (call-next, complete,        *)
(* recall, no-show, recycle, transfer), terminal login/logout, kiosk       *)
(* ticket creation and system reset, over one shared SQLite connection.    *)
(*                                                                         *)
(* Ids are positive integers and NULL is 0.  Timestamps are milliseconds   *)
(* of the process clock `now` (>= 1).  A nullable number of seconds        *)
(* (actual_wait, service_duration) is <<>> for NULL and <<v>> otherwise.   *)
(* A handler is a function from the store and the request to a result      *)
(* [status, err, ticket, store]; a result whose status is an error carries *)
(* the store unchanged (the guard throws before the first write and        *)
(* withTransaction rolls back).  The ticket columns estimated_wait, notes  *)
(* and recall_count are read by no guard and are left out of the rows.     *)
(***************************************************************************)
EXTENDS Integers, Sequences, FiniteSets, TLC

NULL == 0

\* ---- bounds of the model ------------------------------------------------
MaxTime == 2         \* last value of the clock
NumReq == 2          \* request slots of the statement-level specification

\* ---- configuration rows (seed data) --------------------------------------
Counters == {1, 2}               \* rows of table counters
Agents == {1, 2}                 \* agentId values a request may carry
Services == {1, 2, 3}            \* rows of table services
ServiceIds == Services \cup {4}  \* serviceId values a request may carry
TicketIds == {1, 2}              \* ids the ticket sequence may issue between two resets
Times == 1..MaxTime
Requests == 1..NumReq
\* the (counterId, agentId) pairs the terminals send
Sessions == {<<1, 1>>, <<2, 2>>}

\* services.is_active: service 3 is switched off
ServiceActive(s) == s \in {1, 2}
\* services.prefix
ServicePrefix(s) == IF s = 1 THEN "A" ELSE IF s = 2 THEN "B" ELSE "C"
\* services.range_start / range_end
RangeStart(s) == 1
RangeEnd(s) == IF s = 2 THEN 1 ELSE 999
\* agent_services rows of an agent, ORDER BY priority
\* (agent 1 serves service 1, agent 3 is assigned to the service that is
\* switched off, agent 2 has no assignment)
AgentServices(a) == IF a = 1 THEN <<1>> ELSE IF a = 3 THEN <<3>> ELSE <<>>
\* counters.default_service_id
DefaultService(c) == IF c = 1 THEN 2 ELSE NULL
\* kiosk payloads after validateTicketPayload: priority 0..2, and
\* customerName / customerPhone / customerEmail after sanitizeString
\* (NULL, or a non-empty string, here a token)
KioskPayloads ==
    { [priority |-> 0, customer |-> [name |-> NULL, phone |-> NULL, email |-> NULL]],
      [priority |-> 2, customer |-> [name |-> 1, phone |-> 2, email |-> 3]] }

VARIABLES
    tickets,     \* table tickets: id -> row
    counters,    \* table counters: id -> row
    services,    \* table services: id -> [current_number]
    seq,         \* sqlite_sequence of tickets: last id issued
    now,         \* the process clock
    txOwner,     \* request whose transaction is open on the connection, or NULL
    txSnapshot,  \* the store as it was at that transaction's BEGIN
    pc,          \* statement-level specifications: position of each request
    loc,         \* statement-level specifications: locals of each request
    resetInProgress, \* systemReset.js: let resetInProgress
    settings     \* database/db.js: the settings table, settingsCache, cacheTimestamp, calls in flight

vars == <<tickets, counters, services, seq, now, txOwner, txSnapshot, pc, loc, resetInProgress, settings>>
conc == <<txOwner, txSnapshot, pc, loc, resetInProgress, settings>>

\* the store as one value
Store == [tickets |-> tickets, counters |-> counters, services |-> services, seq |-> seq]

\* the store becomes st
SetStore(st) ==
    /\ tickets' = st.tickets
    /\ counters' = st.counters
    /\ services' = st.services
    /\ seq' = st.seq

\* ---- helpers -------------------------------------------------------------
RECURSIVE Digits(_)
Digits(n) == IF n < 10 THEN <<n>> ELSE Digits(n \div 10) \o <<n % 10>>

RECURSIVE PadStart(_, _)
\* String(n).padStart(len, '0'), as a sequence of digits
PadStart(d, len) == IF Len(d) >= len THEN d ELSE PadStart(<<0>> \o d, len)

\* `${service.prefix}${String(nextNumber).padStart(3, '0')}`
TicketNumber(s, n) == [prefix |-> ServicePrefix(s), digits |-> PadStart(Digits(n), 3)]

Max(a, b) == IF a >= b THEN a ELSE b

\* Math.floor((later - earlier) / 1000)
FloorSeconds(later, earlier) == (later - earlier) \div 1000

SeqRange(q) == {q[i] : i \in 1..Len(q)}

\* httpError(status, message): the transaction rolls back, the store stays
Fail(st, status, err) == [status |-> status, err |-> err, ticket |-> NULL, store |-> st]

\* the handler's success result
Ok(st, status, t) == [status |-> status, err |-> "", ticket |-> t, store |-> st]

InitCounter == [state |-> "offline", current_ticket_id |-> NULL, current_agent_id |-> NULL]

\* the locals of a request that has not arrived
NoLocals == [counter |-> NULL, agent |-> NULL, service |-> NULL, ticket |-> NULL,
             pick |-> NULL, status |-> 0, err |-> "",
             target |-> NULL, waiting |-> 0, inflight |-> {},
             pickService |-> NULL, queue |-> <<>>,
             kind |-> "", payload |-> <<>>, start |-> <<>>,
             committed |-> FALSE, after |-> <<>>, logged |-> "", logOutcome |-> "",
     sent |-> ""]

\* ---- database/db.js: the settings cache ------------------------------------
\* const CACHE_TTL_MS = 30 * 1000
CACHE_TTL_MS == 30 * 1000

\* the values column 'value' of a settings row takes
SettingValues == {1, 2}

NoFetch == [pc |-> "idle", start |-> 0, map |-> NULL, returned |-> NULL]

\* the module after load: let settingsCache = null; let cacheTimestamp = 0
InitSettings ==
    [rows |-> 1, settingsCache |-> NULL, cacheTimestamp |-> 0, put |-> "idle",
     fetch |-> [r \in Requests |-> NoFetch]]

Init ==
    /\ tickets = <<>>
    /\ counters = [c \in Counters |-> InitCounter]
    /\ services = [s \in Services |-> [current_number |-> 0]]
    /\ seq = 0
    /\ now = 1
    /\ txOwner = NULL
    /\ txSnapshot = <<>>
    /\ pc = [r \in Requests |-> "idle"]
    /\ loc = [r \in Requests |-> NoLocals]
    /\ resetInProgress = FALSE
    /\ settings = InitSettings

\* the clock advances
Tick ==
    /\ now < MaxTime
    /\ now' = now + 1
    /\ UNCHANGED <<tickets, counters, services, seq, conc>>

\* ---- kiosk: POST /tickets ------------------------------------------------
NewTicket(s, number, prio, cust, createdAt) ==
    [ticket_number |-> number, service_id |-> s, state |-> "waiting",
     priority |-> prio, customer |-> cust, created_at |-> createdAt,
     called_at |-> NULL, served_at |-> NULL, completed_at |-> NULL,
     actual_wait |-> <<>>, service_duration |-> <<>>,
     counter_id |-> NULL, agent_id |-> NULL,
     original_service_id |-> NULL, transferred_at |-> NULL]

\* INSERT INTO tickets: the row gets the next id of the sequence
InsertTicket(tk, id, row) == [i \in DOMAIN tk \cup {id} |-> IF i = id THEN row ELSE tk[i]]

\* a kiosk that starts every number at range_start
KioskNextNumberFromRange(st, s) == RangeStart(s)

\* Math.max(service.current_number ?? 0, (service.range_start ?? 1) - 1) + 1
KioskNextNumber(st, s) == Max(st.services[s].current_number, RangeStart(s) - 1) + 1

KioskCreateResult(st, s, payload, time) ==
    IF ~(s \in Services /\ ServiceActive(s))
    THEN Fail(st, 404, "Service not found or inactive")
    ELSE IF RangeEnd(s) # 0 /\ KioskNextNumber(st, s) > RangeEnd(s)
    THEN Fail(st, 409, "Service ticket range exhausted")
    ELSE Ok([st EXCEPT !.services[s].current_number = KioskNextNumber(st, s),
                       !.seq = st.seq + 1,
                       !.tickets = InsertTicket(st.tickets, st.seq + 1,
                           NewTicket(s, TicketNumber(s, KioskNextNumber(st, s)),
                                     payload.priority, payload.customer, time))],
            201, st.seq + 1)

KioskCreateTicket(s, payload) ==
    LET r == KioskCreateResult(Store, s, payload, now)
    IN  /\ seq + 1 \in TicketIds
        /\ r.status = 201
        /\ SetStore(r.store)
        /\ UNCHANGED <<now, conc>>

\* ---- getQueueSnapshot ----------------------------------------------------
\* the rows of the second query: WHERE service_id = ? AND state IN ('waiting', 'recycled')
SnapshotRows(tk, s) ==
    {t \in DOMAIN tk : tk[t].service_id = s /\ tk[t].state \in {"waiting", "recycled"}}

\* ORDER BY created_at ASC alone
MayPrecedeByAge(a, b) == a.created_at <= b.created_at

\* ORDER BY priority DESC, created_at ASC: row a may come before row b
MayPrecede(a, b) ==
    \/ a.priority > b.priority
    \/ a.priority = b.priority /\ a.created_at <= b.created_at

\* the orders in which the query may return the rows (rows that agree on
\* priority and created_at come in an order the query does not fix)
SnapshotOrders(tk, s) ==
    LET rows == SnapshotRows(tk, s)
        n == Cardinality(rows)
    IN  {q \in [1..n -> rows] :
            /\ \A i, j \in 1..n : i # j => q[i] # q[j]
            /\ \A i, j \in 1..n : i < j => MayPrecede(tk[q[i]], tk[q[j]])}

\* the entry of snapshot.tickets made from a row
SnapshotEntry(tk, t) ==
    [id |-> t, ticket_number |-> tk[t].ticket_number, service_id |-> tk[t].service_id,
     priority |-> tk[t].priority, created_at |-> tk[t].created_at,
     customer_name |-> tk[t].customer.name, customer_phone |-> tk[t].customer.phone,
     state |-> tk[t].state, isRecycled |-> tk[t].state = "recycled"]

\* the first query: SELECT state, COUNT(*) ... GROUP BY state, summed per kind
CountInStates(tk, s, states) ==
    Cardinality({t \in DOMAIN tk : tk[t].service_id = s /\ tk[t].state \in states})

\* the snapshots getQueueSnapshot(tx, serviceId) can return on these rows
GetQueueSnapshot(tk, s) ==
    { [serviceId |-> s,
       waiting |-> CountInStates(tk, s, {"waiting", "recycled"}),
       serving |-> CountInStates(tk, s, {"called"}),
       tickets |-> [i \in 1..Len(q) |-> SnapshotEntry(tk, q[i])]]
      : q \in SnapshotOrders(tk, s) }

\* ---- terminal: POST /call-next -------------------------------------------
\* the service row with this id, if it is active
ActiveService(s) == IF s \in Services /\ ServiceActive(s) THEN s ELSE NULL

\* SELECT id FROM services WHERE is_active = 1 ORDER BY priority, id LIMIT 1
FirstActiveService ==
    IF \E s \in Services : ServiceActive(s)
    THEN CHOOSE s \in Services :
             ServiceActive(s) /\ \A o \in Services : ServiceActive(o) => s <= o
    ELSE NULL

\* the service a call-next without ticketId works on: [status, err, service]
ResolveService(c, a, s) ==
    LET asg == AgentServices(a)
        hasAssignments == Len(asg) > 0
        byCounter == IF c \in Counters THEN ActiveService(DefaultService(c)) ELSE NULL
        ctx == IF s # NULL THEN ActiveService(s)
               ELSE IF hasAssignments THEN ActiveService(asg[1])
               ELSE IF byCounter # NULL THEN byCounter
               ELSE FirstActiveService
    IN  IF s # NULL /\ ctx = NULL
        THEN [status |-> 404, err |-> "Requested service not found", service |-> NULL]
        ELSE IF s # NULL /\ hasAssignments /\ s \notin SeqRange(asg)
        THEN [status |-> 403, err |-> "Agent is not assigned to this service", service |-> NULL]
        ELSE IF ctx = NULL
        THEN [status |-> 400, err |-> "Unable to determine service for agent", service |-> NULL]
        ELSE [status |-> 200, err |-> "", service |-> ctx]

WaitingIn(tk, s) == {t \in DOMAIN tk : tk[t].service_id = s /\ tk[t].state = "waiting"}

\* the rows that SELECT ... WHERE service_id = ? AND state = 'waiting'
\* ORDER BY created_at LIMIT 1 may return (rows of equal created_at come
\* in an order the query does not fix)
FirstWaiting(tk, s) ==
    {t \in WaitingIn(tk, s) : \A o \in WaitingIn(tk, s) : tk[t].created_at <= tk[o].created_at}

\* a selection that takes the named ticket whatever its state and service
SelectTicketUnchecked(tk, c, a, s, tid) ==
    IF tid \in DOMAIN tk
    THEN [status |-> 200, err |-> "", picks |-> {tid}]
    ELSE [status |-> 404, err |-> "Requested ticket is not available for calling", picks |-> {}]

\* the ticket selection of call-next: [status, err, picks]
SelectTicket(tk, c, a, s, tid) ==
    IF tid # NULL
    THEN IF ~(tid \in DOMAIN tk /\ tk[tid].state = "waiting")
         THEN [status |-> 404, err |-> "Requested ticket is not available for calling", picks |-> {}]
         ELSE IF tk[tid].service_id \notin SeqRange(AgentServices(a))
         THEN [status |-> 403, err |-> "Agent is not authorized for this service", picks |-> {}]
         ELSE [status |-> 200, err |-> "", picks |-> {tid}]
    ELSE LET r == ResolveService(c, a, s)
         IN  IF r.status # 200
             THEN [status |-> r.status, err |-> r.err, picks |-> {}]
             ELSE IF FirstWaiting(tk, r.service) = {}
             THEN [status |-> 404, err |-> "No tickets waiting in queue", picks |-> {}]
             ELSE [status |-> 200, err |-> "", picks |-> FirstWaiting(tk, r.service)]

\* UPDATE tickets SET state = 'called', called_at, served_at, counter_id, agent_id WHERE id = ?
CallTicket(tk, t, c, a, time) ==
    IF t \in DOMAIN tk
    THEN [tk EXCEPT ![t].state = "called", ![t].called_at = time, ![t].served_at = time,
                    ![t].counter_id = c, ![t].agent_id = a]
    ELSE tk

\* a counter update that forgets current_ticket_id
ServeCounterNoTicket(ct, t, c, a) ==
    IF c \in DOMAIN ct
    THEN [ct EXCEPT ![c].state = "serving", ![c].current_agent_id = a]
    ELSE ct

\* UPDATE counters SET current_ticket_id = ?, current_agent_id = ?, state = 'serving' WHERE id = ?
ServeCounter(ct, t, c, a) ==
    IF c \in DOMAIN ct
    THEN [ct EXCEPT ![c] = [state |-> "serving", current_ticket_id |-> t, current_agent_id |-> a]]
    ELSE ct

\* a counter update that leaves current_ticket_id set
FreeCounterKeepsTicket(ct, c) ==
    IF c \in DOMAIN ct
    THEN [ct EXCEPT ![c].state = "available"]
    ELSE ct

\* UPDATE counters SET current_ticket_id = NULL, state = 'available' WHERE id = ?
FreeCounter(ct, c) ==
    IF c \in DOMAIN ct
    THEN [ct EXCEPT ![c].current_ticket_id = NULL, ![c].state = "available"]
    ELSE ct

\* the two updates of call-next on the selected ticket
CallNextApply(st, t, c, a, time) ==
    [st EXCEPT !.tickets = CallTicket(st.tickets, t, c, a, time),
               !.counters = ServeCounter(st.counters, t, c, a)]

\* the store of the data model: counter_id is an attribute of the ticket and
\* no constraint refuses a value that is not the id of a counter row
CounterReferenceHolds(ct, c) == TRUE

\* the results call-next can give (one for each row the selection may return)
CallNextResults(st, c, a, s, tid, time) ==
    LET sel == SelectTicket(st.tickets, c, a, s, tid)
    IN  IF sel.status # 200
        THEN {Fail(st, sel.status, sel.err)}
        ELSE IF ~CounterReferenceHolds(st.counters, c)
        THEN {Fail(st, 500, "FOREIGN KEY constraint failed")}
        ELSE {Ok(CallNextApply(st, t, c, a, time), 200, t) : t \in sel.picks}

CallNext(c, a, s, tid) ==
    \E r \in CallNextResults(Store, c, a, s, tid, now) :
        /\ r.status = 200
        /\ SetStore(r.store)
        /\ UNCHANGED <<now, conc>>

\* ---- terminal: the row lookups of the other operations --------------------
\* WHERE t.id = ? AND t.counter_id = ? AND t.agent_id = ?
Assigned(tk, t, c, a) ==
    t \in DOMAIN tk /\ tk[t].counter_id = c /\ tk[t].agent_id = a

\* WHERE t.id = ? AND t.state = 'called' AND t.counter_id = ? AND t.agent_id = ?
CalledAt(tk, t, c, a) == Assigned(tk, t, c, a) /\ tk[t].state = "called"

\* ---- terminal: POST /complete ---------------------------------------------
\* a complete without the already-completed guard
NeverAlreadyCompleted(row) == FALSE

\* if (ticket.state === 'completed') throw httpError(400, ...)
AlreadyCompleted(row) == row.state = "completed"

\* UPDATE tickets SET state = 'completed', completed_at, actual_wait, service_duration
CompleteTicket(row, time) ==
    LET servedAt == IF row.served_at # NULL THEN row.served_at ELSE row.called_at
    IN  [row EXCEPT !.state = "completed",
                    !.completed_at = time,
                    !.actual_wait = IF row.created_at # NULL /\ servedAt # NULL
                                    THEN <<FloorSeconds(servedAt, row.created_at)>>
                                    ELSE <<>>,
                    !.service_duration = IF servedAt # NULL
                                         THEN <<FloorSeconds(time, servedAt)>>
                                         ELSE <<>>]

CompleteResult(st, t, c, a, time) ==
    IF ~Assigned(st.tickets, t, c, a)
    THEN Fail(st, 404, "Ticket not found or not assigned to this counter/agent")
    ELSE IF AlreadyCompleted(st.tickets[t])
    THEN Fail(st, 400, "Ticket already completed")
    ELSE Ok([st EXCEPT !.tickets[t] = CompleteTicket(st.tickets[t], time),
                       !.counters = FreeCounter(st.counters, c)], 200, t)

Complete(t, c, a) ==
    LET r == CompleteResult(Store, t, c, a, now)
    IN  /\ r.status = 200
        /\ SetStore(r.store)
        /\ UNCHANGED <<now, conc>>

\* ---- terminal: POST /recall -----------------------------------------------
RecallResult(st, t, c, a, time) ==
    IF ~CalledAt(st.tickets, t, c, a)
    THEN Fail(st, 404, "Ticket not found or not in called state")
    ELSE Ok([st EXCEPT !.tickets[t].called_at = time], 200, t)

Recall(t, c, a) ==
    LET r == RecallResult(Store, t, c, a, now)
    IN  /\ r.status = 200
        /\ SetStore(r.store)
        /\ UNCHANGED <<now, conc>>

\* ---- terminal: POST /no-show ----------------------------------------------
NoShowResult(st, t, c, a, time) ==
    IF ~CalledAt(st.tickets, t, c, a)
    THEN Fail(st, 404, "Ticket not found or not in called state")
    ELSE Ok([st EXCEPT !.tickets[t].state = "no_show",
                       !.tickets[t].completed_at = time,
                       !.counters = FreeCounter(st.counters, c)], 200, t)

NoShow(t, c, a) ==
    LET r == NoShowResult(Store, t, c, a, now)
    IN  /\ r.status = 200
        /\ SetStore(r.store)
        /\ UNCHANGED <<now, conc>>

\* ---- terminal: POST /recycle ----------------------------------------------
\* a recycle that leaves agent_id set
RecycleTicketKeepsAgent(row) ==
    [row EXCEPT !.state = "waiting", !.counter_id = NULL,
                !.called_at = NULL, !.served_at = NULL]

\* UPDATE tickets SET state = 'waiting', counter_id = NULL, agent_id = NULL,
\*                    called_at = NULL, served_at = NULL
RecycleTicket(row) ==
    [row EXCEPT !.state = "waiting", !.counter_id = NULL, !.agent_id = NULL,
                !.called_at = NULL, !.served_at = NULL]

\* a recycle that marks the ticket 'recycled' instead of 'waiting'
RecycleResultMarksRecycled(st, t, c, a, position) ==
    IF ~Assigned(st.tickets, t, c, a)
    THEN Fail(st, 404, "Ticket not found or not assigned to this counter/agent")
    ELSE IF st.tickets[t].state # "called"
    THEN Fail(st, 400, "Ticket is not currently being served")
    ELSE Ok([st EXCEPT !.tickets[t] = [RecycleTicket(st.tickets[t]) EXCEPT !.state = "recycled"],
                       !.counters = FreeCounter(st.counters, c)], 200, t)

RecycleResult(st, t, c, a, position) ==
    IF ~Assigned(st.tickets, t, c, a)
    THEN Fail(st, 404, "Ticket not found or not assigned to this counter/agent")
    ELSE IF st.tickets[t].state # "called"
    THEN Fail(st, 400, "Ticket is not currently being served")
    ELSE Ok([st EXCEPT !.tickets[t] = RecycleTicket(st.tickets[t]),
                       !.counters = FreeCounter(st.counters, c)], 200, t)

\* req.body?.position ? parsePositiveInt(req.body.position, 'position') : 3
\* (an absent or falsy position is NULL here)
RequestedPosition(raw) == IF raw = NULL THEN 3 ELSE raw

\* a recycle that re-inserts the ticket at the requested position
RecycleRequestReorders(st, t, c, a, raw, time) ==
    IF raw # NULL /\ raw <= 0
    THEN Fail(st, 400, "position must be a positive integer")
    ELSE LET r == RecycleResult(st, t, c, a, RequestedPosition(raw))
         IN  IF r.status # 200 THEN r
             ELSE [r EXCEPT !.store.tickets[t].created_at = RequestedPosition(raw)]

\* the handler from its parameters on: parsePositiveInt throws 400 before
\* the transaction begins
RecycleRequest(st, t, c, a, raw, time) ==
    IF raw # NULL /\ raw <= 0
    THEN Fail(st, 400, "position must be a positive integer")
    ELSE RecycleResult(st, t, c, a, RequestedPosition(raw))

\* the queue snapshots the handler can return with a successful recycle
RecycleQueueUpdate(st, t, c, a, raw, time) ==
    GetQueueSnapshot(RecycleRequest(st, t, c, a, raw, time).store.tickets,
                     st.tickets[t].service_id)

Recycle(t, c, a) ==
    LET r == RecycleResult(Store, t, c, a, 3)
    IN  /\ r.status = 200
        /\ SetStore(r.store)
        /\ UNCHANGED <<now, conc>>

\* ---- terminal: POST /transfer ---------------------------------------------
\* a transfer that records the service the ticket leaves
OriginalServiceIdIsSource(row) == row.service_id

\* ticket.original_service_id || ticket.service_id
OriginalServiceId(row) ==
    IF row.original_service_id # NULL THEN row.original_service_id ELSE row.service_id

\* the row inserted into the target service
TransferredTicket(row, target, time) ==
    [ticket_number |-> row.ticket_number, service_id |-> target, state |-> "waiting",
     priority |-> row.priority, customer |-> row.customer,
     created_at |-> IF row.created_at # NULL THEN row.created_at ELSE time,
     called_at |-> NULL, served_at |-> NULL, completed_at |-> NULL,
     actual_wait |-> <<>>, service_duration |-> <<>>,
     counter_id |-> NULL, agent_id |-> NULL,
     original_service_id |-> OriginalServiceId(row), transferred_at |-> time]

\* DELETE FROM tickets WHERE id = ?
DeleteTicket(tk, t) == [i \in DOMAIN tk \ {t} |-> tk[i]]

TransferResult(st, t, target, c, a, time) ==
    IF ~CalledAt(st.tickets, t, c, a)
    THEN Fail(st, 404, "Ticket not found or not in called state")
    ELSE IF ActiveService(target) = NULL
    THEN Fail(st, 400, "Invalid target service")
    ELSE IF target = st.tickets[t].service_id
    THEN Fail(st, 400, "Cannot transfer to the same service")
    ELSE Ok([st EXCEPT !.seq = st.seq + 1,
                       !.tickets = DeleteTicket(
                           InsertTicket(st.tickets, st.seq + 1,
                                        TransferredTicket(st.tickets[t], target, time)), t),
                       !.counters = FreeCounter(st.counters, c)],
            200, st.seq + 1)

\* io.emit('ticket-transferred', { ticket: { id, oldNumber, newNumber,
\*   fromServiceId: result.ticket.originalServiceId, toServiceId, state, transferredAt } })
TicketTransferredEvent(st, t, target, time) ==
    [id |-> st.seq + 1,
     oldNumber |-> st.tickets[t].ticket_number,
     newNumber |-> st.tickets[t].ticket_number,
     fromServiceId |-> OriginalServiceId(st.tickets[t]),
     toServiceId |-> target,
     state |-> "waiting",
     transferredAt |-> time]

Transfer(t, target, c, a) ==
    LET r == TransferResult(Store, t, target, c, a, now)
    IN  /\ seq + 1 \in TicketIds
        /\ r.status = 200
        /\ SetStore(r.store)
        /\ UNCHANGED <<now, conc>>

\* ---- terminal: POST /login, POST /logout ----------------------------------
\* the agent every login is given: const agentId = 1
LoginAgent == 1

\* UPDATE counters SET current_agent_id = ?, state = 'available' WHERE id = ?
LoginResult(st, c) ==
    IF c \notin DOMAIN st.counters
    THEN Fail(st, 404, "Counter not found")
    ELSE Ok([st EXCEPT !.counters[c].current_agent_id = LoginAgent,
                       !.counters[c].state = "available"], 200, NULL)

Login(c) ==
    LET r == LoginResult(Store, c)
    IN  /\ r.status = 200
        /\ SetStore(r.store)
        /\ UNCHANGED <<now, conc>>

\* UPDATE counters SET current_agent_id = NULL, state = 'offline'
\*  WHERE id = ? AND current_agent_id = ?
LogoutResult(st, a, c) ==
    IF ~(c \in DOMAIN st.counters /\ st.counters[c].current_agent_id = a)
    THEN Fail(st, 400, "Agent not logged in to this counter")
    ELSE Ok([st EXCEPT !.counters[c].current_agent_id = NULL,
                       !.counters[c].state = "offline"], 200, NULL)

Logout(a, c) ==
    LET r == LogoutResult(Store, a, c)
    IN  /\ r.status = 200
        /\ SetStore(r.store)
        /\ UNCHANGED <<now, conc>>

\* ---- admin: performSystemReset --------------------------------------------
\* a reset that makes every counter available
ResetCountersAll(ct) ==
    [c \in DOMAIN ct |-> [ct[c] EXCEPT !.current_ticket_id = NULL, !.state = "available"]]

\* UPDATE counters SET current_ticket_id = NULL,
\*        state = CASE WHEN state = 'serving' THEN 'available' ELSE state END
ResetCounters(ct) ==
    [c \in DOMAIN ct |->
        [ct[c] EXCEPT !.current_ticket_id = NULL,
                      !.state = IF ct[c].state = "serving" THEN "available" ELSE ct[c].state]]

ResetResult(st) ==
    Ok([tickets |-> <<>>,
        counters |-> ResetCounters(st.counters),
        services |-> [s \in DOMAIN st.services |-> [st.services[s] EXCEPT !.current_number = 0]],
        seq |-> 0], 200, NULL)

PerformSystemReset ==
    /\ SetStore(ResetResult(Store).store)
    /\ UNCHANGED <<now, conc>>

\* ---- routes/ticket.js: POST /state, /requeue, /recycle, /park, /no-show ----
LegacyTicketRoutes == {"state", "requeue", "recycle", "park", "no-show"}

\* rejectLegacyTicketRoute: res.status(410).json({ error: DEPRECATION_MESSAGE })
RejectLegacyTicketRoute(st, route, t) ==
    Fail(st, 410, "This ticket endpoint is deprecated. Use /api/terminal/call-next and related terminal routes.")

\* ---- the lifecycle engine: every handler runs as one step ----------------
Next ==
    \/ Tick
    \/ \E s \in Services, p \in KioskPayloads : KioskCreateTicket(s, p)
    \/ \E ca \in Sessions, s \in ServiceIds \cup {NULL}, t \in TicketIds \cup {NULL} :
          CallNext(ca[1], ca[2], s, t)
    \/ \E t \in TicketIds, ca \in Sessions : Complete(t, ca[1], ca[2])
    \/ \E t \in TicketIds, ca \in Sessions : Recall(t, ca[1], ca[2])
    \/ \E t \in TicketIds, ca \in Sessions : NoShow(t, ca[1], ca[2])
    \/ \E t \in TicketIds, ca \in Sessions : Recycle(t, ca[1], ca[2])
    \/ \E t \in TicketIds, g \in ServiceIds, ca \in Sessions : Transfer(t, g, ca[1], ca[2])
    \/ PerformSystemReset

Spec == Init /\ [][Next]_vars

\* ---- the lifecycle engine together with terminal login and logout --------
NextTerminal ==
    \/ Next
    \/ \E c \in Counters : Login(c)
    \/ \E a \in Agents, c \in Counters : Logout(a, c)

SpecTerminal == Init /\ [][NextTerminal]_vars

\* ---- admin: presetServiceQueue --------------------------------------------
PresetCap == 500

NoCustomer == [name |-> NULL, phone |-> NULL, email |-> NULL]

\* SELECT id FROM tickets WHERE service_id = ? AND ticket_number = ?
NumberTaken(tk, s, number) ==
    \E t \in DOMAIN tk : tk[t].service_id = s /\ tk[t].ticket_number = number

\* if (!Number.isInteger(startNumber) || startNumber < 0) throw
StartNumberRejected(n) == n < 0

\* the checks before withTransaction: the error message, or "" to go on
PresetValidation(s, n, k) ==
    IF s <= 0 THEN "serviceId must be a positive integer"
    ELSE IF StartNumberRejected(n) THEN "startNumber must be zero or positive integer"
    ELSE IF k <= 0 THEN "count must be a positive integer"
    ELSE IF k > PresetCap THEN "count may not exceed 500 tickets per request"
    ELSE ""

RECURSIVE PresetLoop(_, _, _, _, _, _, _)
\* for (i = 1; i <= count; i += 1): acc is [store, inserted, skipped]
PresetLoop(acc, s, n, k, i, prio, time) ==
    IF i > k THEN acc
    ELSE IF NumberTaken(acc.store.tickets, s, TicketNumber(s, n + i))
    THEN PresetLoop([acc EXCEPT !.skipped = acc.skipped + 1], s, n, k, i + 1, prio, time)
    ELSE PresetLoop(
            [acc EXCEPT !.inserted = acc.inserted + 1,
                        !.store.seq = acc.store.seq + 1,
                        !.store.tickets =
                            InsertTicket(acc.store.tickets, acc.store.seq + 1,
                                NewTicket(s, TicketNumber(s, n + i), prio, NoCustomer,
                                          time + acc.inserted))],
            s, n, k, i + 1, prio, time)

\* a preset that sets current_number to startNumber + count
PresetCurrentNumberOverwrites(cur, n, k) == n + k

\* Math.max(service.current_number || 0, startNumber + count)
PresetCurrentNumber(cur, n, k) == Max(cur, n + k)

\* the request from its parameters on: [status, err, inserted, skipped, store]
PresetResult(st, s, n, k, prio, time) ==
    IF PresetValidation(s, n, k) # ""
    THEN [status |-> 400, err |-> PresetValidation(s, n, k),
          inserted |-> 0, skipped |-> 0, store |-> st]
    ELSE IF ActiveService(s) = NULL
    THEN [status |-> 400, err |-> "Service not found or inactive",
          inserted |-> 0, skipped |-> 0, store |-> st]
    ELSE LET done == PresetLoop([store |-> st, inserted |-> 0, skipped |-> 0],
                                s, n, k, 1, prio, time)
         IN  [status |-> 200, err |-> "",
              inserted |-> done.inserted, skipped |-> done.skipped,
              store |-> [done.store EXCEPT !.services[s].current_number =
                            PresetCurrentNumber(st.services[s].current_number, n, k)]]

PresetServiceQueue(s, n, k, prio) ==
    LET r == PresetResult(Store, s, n, k, prio, now)
    IN  /\ r.status = 200
        /\ r.store.seq \in TicketIds \cup {0}
        /\ SetStore(r.store)
        /\ UNCHANGED <<now, conc>>

\* the (startNumber, count) pairs of the preset requests that are applied
PresetRanges == {<<0, 1>>, <<0, 2>>, <<1, 1>>}

\* ---- the lifecycle engine together with the queue preset ------------------
NextSystem ==
    \/ Next
    \/ \E s \in Services, nk \in PresetRanges :
          PresetServiceQueue(s, nk[1], nk[2], 0)

SpecSystem == Init /\ [][NextSystem]_vars

\* ---- preset queues that are called and completed --------------------------
NextPreset ==
    \/ Tick
    \/ \E s \in Services, p \in KioskPayloads : KioskCreateTicket(s, p)
    \/ \E s \in Services, nk \in PresetRanges :
          PresetServiceQueue(s, nk[1], nk[2], 0)
    \/ \E ca \in Sessions : CallNext(ca[1], ca[2], NULL, NULL)
    \/ \E t \in TicketIds, ca \in Sessions : Complete(t, ca[1], ca[2])
    \/ PerformSystemReset

SpecPreset == Init /\ [][NextPreset]_vars

\* ---- statement level: call-next requests on the shared connection --------
\* every request runs its statements on the one connection getDb() returns;
\* BEGIN fails ("cannot start a transaction within a transaction") while
\* another request's transaction is open on it
BeginAlwaysSucceeds(owner) == TRUE

BeginSucceeds(owner) == owner = NULL

InFlight(r) == pc[r] \in {"begun", "selected", "updated"}

\* the service a request will work on and the tickets waiting in it, as
\* they are when the request arrives
ArrivalTarget(c, a, s, tid) ==
    IF tid # NULL THEN NULL ELSE ResolveService(c, a, s).service

\* the store after ROLLBACK on the connection: the open transaction's writes
\* are undone; with no transaction open ROLLBACK fails and changes nothing
AfterRollback == IF txOwner # NULL THEN txSnapshot ELSE Store

\* a withTransaction that awaits BEGIN inside its try block
BeginCaughtByTry == TRUE

\* await client.exec(beginStatement) stands before the try block: a failed
\* BEGIN does not reach the catch that issues ROLLBACK
BeginInTry == FALSE

\* the request arrives and withTransaction awaits BEGIN; a failed BEGIN is
\* thrown out of withTransaction before its try block and the route answers 500
CnBegin(r, c, a, s, tid) ==
    LET target == ArrivalTarget(c, a, s, tid)
        arrived == [NoLocals EXCEPT !.counter = c, !.agent = a, !.service = s,
                        !.ticket = tid, !.target = target,
                        !.waiting = IF target = NULL THEN 0
                                    ELSE Cardinality(WaitingIn(tickets, target)),
                        !.inflight = {o \in Requests : InFlight(o)}]
    IN  /\ pc[r] = "idle"
        /\ UNCHANGED <<now, resetInProgress, settings>>
        /\ IF BeginSucceeds(txOwner)
           THEN /\ txOwner' = r
                /\ txSnapshot' = Store
                /\ pc' = [pc EXCEPT ![r] = "begun"]
                /\ loc' = [loc EXCEPT ![r] = arrived]
                /\ UNCHANGED <<tickets, counters, services, seq>>
           ELSE /\ pc' = [pc EXCEPT ![r] = "done"]
                /\ loc' = [loc EXCEPT ![r] = [arrived EXCEPT !.status = 500,
                       !.err = "cannot start a transaction within a transaction"]]
                /\ IF BeginInTry
                   THEN /\ SetStore(AfterRollback)
                        /\ txOwner' = NULL
                        /\ txSnapshot' = <<>>
                   ELSE UNCHANGED <<tickets, counters, services, seq, txOwner, txSnapshot>>

\* the SELECTs of the transaction body; a guard that throws makes
\* withTransaction issue ROLLBACK and rethrow
CnSelect(r) ==
    LET sel == SelectTicket(tickets, loc[r].counter, loc[r].agent, loc[r].service, loc[r].ticket)
    IN  /\ pc[r] = "begun"
        /\ UNCHANGED <<now, resetInProgress, settings>>
        /\ IF sel.status # 200
           THEN /\ SetStore(AfterRollback)
                /\ txOwner' = NULL
                /\ txSnapshot' = <<>>
                /\ pc' = [pc EXCEPT ![r] = "done"]
                /\ loc' = [loc EXCEPT ![r].status = sel.status, ![r].err = sel.err]
           ELSE /\ \E t \in sel.picks :
                      loc' = [loc EXCEPT ![r].pick = t, ![r].pickService = tickets[t].service_id]
                /\ pc' = [pc EXCEPT ![r] = "selected"]
                /\ UNCHANGED <<tickets, counters, services, seq, txOwner, txSnapshot>>

\* the two UPDATEs of the transaction body and the queue snapshot of the
\* ticket's service
CnUpdate(r) ==
    LET after == CallNextApply(Store, loc[r].pick, loc[r].counter, loc[r].agent, now)
    IN  /\ pc[r] = "selected"
        /\ SetStore(after)
        /\ pc' = [pc EXCEPT ![r] = "updated"]
        /\ \E q \in GetQueueSnapshot(after.tickets, loc[r].pickService) :
              loc' = [loc EXCEPT ![r].queue = q]
        /\ UNCHANGED <<now, txOwner, txSnapshot, resetInProgress, settings>>

\* COMMIT, then the response; a COMMIT with no transaction open fails, the
\* ROLLBACK that follows fails too, and the route answers 500
CnCommit(r) ==
    /\ pc[r] = "updated"
    /\ txOwner' = NULL
    /\ txSnapshot' = <<>>
    /\ pc' = [pc EXCEPT ![r] = "done"]
    /\ loc' = [loc EXCEPT ![r].status = IF txOwner # NULL THEN 200 ELSE 500,
                          ![r].err = IF txOwner # NULL THEN ""
                                     ELSE "cannot commit - no transaction is active"]
    /\ UNCHANGED <<tickets, counters, services, seq, now, resetInProgress, settings>>

\* the response is sent and the slot is free for the next request
CnReturn(r) ==
    /\ pc[r] = "done"
    /\ pc' = [pc EXCEPT ![r] = "idle"]
    /\ loc' = [o \in Requests |->
                 IF o = r THEN NoLocals
                 ELSE [loc[o] EXCEPT !.inflight = loc[o].inflight \ {r}]]
    /\ UNCHANGED <<tickets, counters, services, seq, now, txOwner, txSnapshot, resetInProgress, settings>>

\* a kiosk creation that runs while no transaction is open
ConcKioskCreateInside(s, payload) == KioskCreateTicket(s, payload)

ConcKioskCreate(s, payload) ==
    /\ txOwner = NULL
    /\ KioskCreateTicket(s, payload)

\* the requests put the two terminals on the queue of service 1: a plain
\* call-next, or a call-next that names ticket 1
NextConc ==
    \/ \E p \in KioskPayloads : ConcKioskCreate(1, p)
    \/ \E r \in Requests, ca \in Sessions, t \in {NULL, 1} :
          CnBegin(r, ca[1], ca[2], NULL, t)
    \/ \E r \in Requests : CnSelect(r)
    \/ \E r \in Requests : CnUpdate(r)
    \/ \E r \in Requests : CnCommit(r)
    \/ \E r \in Requests : CnReturn(r)

SpecConc == Init /\ [][NextConc]_vars

\* ---- the shared connection: statements outside withTransaction -----------
\* terminal login and logout issue their UPDATE through getDb() directly, at
\* any time, whether or not a request has a transaction open
NextShared ==
    \/ NextConc
    \/ \E c \in Counters : Login(c)
    \/ \E a \in Agents, c \in Counters : Logout(a, c)

SpecShared == Init /\ [][NextShared]_vars

\* ---- kiosk, callback version: POST /tickets --------------------------------
\* the statements between BEGIN and COMMIT: service lookup, number update,
\* ticket insert (priority || 0, created_at by column default)
LegacyKioskResult(st, s, payload, time) ==
    IF ~(s \in Services /\ ServiceActive(s))
    THEN Fail(st, 400, "Invalid or inactive service")
    ELSE LET nextNumber == st.services[s].current_number + 1
         IN  Ok([st EXCEPT !.services[s].current_number = nextNumber,
                           !.seq = st.seq + 1,
                           !.tickets = InsertTicket(st.tickets, st.seq + 1,
                               NewTicket(s, TicketNumber(s, nextNumber),
                                         payload.priority, payload.customer, time))],
                201, st.seq + 1)

\* ---- request level: a handler with its transaction and side effects -------
\* handlers that run their statements through withTransaction
UsesWithTransaction(kind) == kind \in {"call-next", "kiosk", "reset"}

\* handlers that await logEvent(...) before they go on
AwaitsLogEvent(kind) == kind \in {"call-next", "kiosk"}

\* no request is in flight
Quiet == \A r \in Requests : pc[r] = "idle"

\* the results the transaction body of a request can give
FxResults(st, l, time) ==
    CASE l.kind = "call-next" ->
            CallNextResults(st, l.counter, l.agent, l.service, l.ticket, time)
      [] l.kind = "kiosk" -> {KioskCreateResult(st, l.service, l.payload, time)}
      [] l.kind = "legacy-kiosk" -> {LegacyKioskResult(st, l.service, l.payload, time)}
      [] l.kind = "reset" -> {ResetResult(st)}

\* a reset that never looks at the flag
ResetNeverSkips(kind, flag) == FALSE

\* performSystemReset: if (resetInProgress) return { skipped: true }
ResetSkips(kind, flag) == kind = "reset" /\ flag

\* a reset without the finally block: the flag stays as it is
FlagAfterKeeps(kind, flag) == flag

\* the flag once the request has returned: finally { resetInProgress = false }
FlagAfter(kind, flag) == IF kind = "reset" THEN FALSE ELSE flag

\* the request arrives and BEGIN is issued; the callback version issues BEGIN
\* without a callback and goes on, its arrivals are taken while no
\* transaction is open
FxArrive(r, kind, c, a, s, payload) ==
    LET arrived == [NoLocals EXCEPT !.kind = kind, !.counter = c, !.agent = a,
                        !.service = s, !.payload = payload, !.start = Store]
    IN  /\ pc[r] = "idle"
        /\ kind = "legacy-kiosk" => txOwner = NULL
        /\ kind \in {"kiosk", "legacy-kiosk"} => seq + 1 \in TicketIds
        /\ UNCHANGED <<tickets, counters, services, seq, now, settings>>
        /\ IF ResetSkips(kind, resetInProgress)
           THEN /\ pc' = [pc EXCEPT ![r] = "done"]
                /\ loc' = [loc EXCEPT ![r] = [arrived EXCEPT !.status = 409,
                                                 !.err = "Reset already in progress"]]
                /\ UNCHANGED <<txOwner, txSnapshot, resetInProgress, settings>>
           ELSE IF BeginSucceeds(txOwner)
           THEN /\ txOwner' = r
                /\ txSnapshot' = Store
                /\ pc' = [pc EXCEPT ![r] = "begun"]
                /\ loc' = [loc EXCEPT ![r] = arrived]
                /\ resetInProgress' = (resetInProgress \/ kind = "reset")
           ELSE /\ pc' = [pc EXCEPT ![r] = "done"]
                /\ loc' = [loc EXCEPT ![r] = [arrived EXCEPT !.status = 500,
                       !.err = "cannot start a transaction within a transaction"]]
                /\ UNCHANGED <<txOwner, txSnapshot, resetInProgress, settings>>

\* the request ends in an error before COMMIT has succeeded: ROLLBACK, then
\* the error response
FxRollback(r, status, err) ==
    /\ SetStore(AfterRollback)
    /\ txOwner' = NULL
    /\ txSnapshot' = <<>>
    /\ pc' = [pc EXCEPT ![r] = "done"]
    /\ loc' = [loc EXCEPT ![r].status = status, ![r].err = err]
    /\ resetInProgress' = FlagAfter(loc[r].kind, resetInProgress)
    /\ UNCHANGED <<now, settings>>

\* the statements of the transaction body; a guard that throws ends the
\* request with its status
FxWork(r) ==
    /\ pc[r] = "begun"
    /\ \E res \in FxResults(Store, loc[r], now) :
          IF res.status >= 400
          THEN FxRollback(r, res.status, res.err)
          ELSE /\ SetStore(res.store)
               /\ pc' = [pc EXCEPT ![r] = "worked"]
               /\ loc' = [loc EXCEPT ![r].status = res.status, ![r].pick = res.ticket]
               /\ UNCHANGED <<now, txOwner, txSnapshot, resetInProgress, settings>>

\* a statement of the transaction body fails after the first write
FxWorkFails(r) ==
    /\ pc[r] = "begun"
    /\ \E res \in FxResults(Store, loc[r], now) :
          /\ res.status < 400
          /\ FxRollback(r, 500, "statement failed")

\* withTransaction: catch (error) { ROLLBACK; throw error }; the callback
\* version ends a failed COMMIT with the response alone
CommitFailureRollsBack(kind) == UsesWithTransaction(kind)

\* COMMIT is due: the body is done (the callback version has called logEvent
\* by then)
CommitDue(r) ==
    /\ pc[r] = "worked"
    /\ loc[r].kind = "legacy-kiosk" => loc[r].logged # ""

FxCommit(r) ==
    /\ CommitDue(r)
    /\ txOwner' = NULL
    /\ txSnapshot' = <<>>
    /\ pc' = [pc EXCEPT ![r] = "committed"]
    /\ loc' = [loc EXCEPT ![r].committed = TRUE, ![r].after = Store]
    /\ UNCHANGED <<tickets, counters, services, seq, now, resetInProgress, settings>>

\* COMMIT fails and the transaction stays open
FxCommitFails(r) ==
    /\ CommitDue(r)
    /\ IF CommitFailureRollsBack(loc[r].kind)
       THEN FxRollback(r, 500, "commit failed")
       ELSE /\ pc' = [pc EXCEPT ![r] = "done"]
            /\ loc' = [loc EXCEPT ![r].status = 500, ![r].err = "Failed to commit transaction"]
            /\ UNCHANGED <<tickets, counters, services, seq, now, txOwner, txSnapshot,
                           resetInProgress, settings>>

\* the handler may call logEvent now: after withTransaction has returned, or,
\* in the callback version, in the callback of the INSERT
LogDue(r) ==
    /\ loc[r].logged = ""
    /\ pc[r] = (IF loc[r].kind = "legacy-kiosk" THEN "worked" ELSE "committed")

\* logEvent is called; the handlers that await it wait for it to settle
FxLog(r) ==
    /\ LogDue(r)
    /\ loc' = [loc EXCEPT ![r].logged = IF loc[r].committed THEN "committed" ELSE "open"]
    /\ pc' = [pc EXCEPT ![r] = IF AwaitsLogEvent(loc[r].kind) THEN "awaiting-log" ELSE pc[r]]
    /\ UNCHANGED <<tickets, counters, services, seq, now, txOwner, txSnapshot, resetInProgress, settings>>

\* the event log: logEvent returns a promise, which resolves once the record
\* is written and rejects when the write fails
LogOutcomes == {"resolved", "rejected"}

\* logEvent(...).catch((err) => logger.error(...)) fulfils whatever the outcome
LogEventNoCatch(outcome) == outcome

LogEventCatch(outcome) == "resolved"

\* the event-log write settles; a handler that awaits it goes on
FxLogSettles(r, outcome) ==
    /\ loc[r].logged # ""
    /\ loc[r].logOutcome = ""
    /\ pc[r] # "done"
    /\ IF pc[r] # "awaiting-log"
       THEN /\ pc' = pc
            /\ loc' = [loc EXCEPT ![r].logOutcome = outcome]
       ELSE IF LogEventCatch(outcome) = "resolved"
       THEN /\ pc' = [pc EXCEPT ![r] = "committed"]
            /\ loc' = [loc EXCEPT ![r].logOutcome = outcome]
       ELSE /\ pc' = [pc EXCEPT ![r] = "done"]
            /\ loc' = [loc EXCEPT ![r].logOutcome = outcome, ![r].status = 500,
                                  ![r].err = "Internal server error"]
    /\ UNCHANGED <<tickets, counters, services, seq, now, txOwner, txSnapshot,
                   resetInProgress, settings>>

BroadcastDue(r) == pc[r] = "committed" /\ loc[r].logged # "" /\ loc[r].sent = ""

\* the realtime broadcaster: its errors are caught and logged, never rethrown
BroadcasterThrows == FALSE

\* the broadcasts and the response; a throw in between would reach the catch
\* block of the handler, which answers 500
FxBroadcast(r) ==
    /\ BroadcastDue(r)
    /\ pc' = [pc EXCEPT ![r] = "done"]
    /\ loc' = [loc EXCEPT ![r].sent = "committed",
                          ![r].status = IF BroadcasterThrows /\ UsesWithTransaction(loc[r].kind)
                                        THEN 500 ELSE loc[r].status]
    /\ resetInProgress' = FlagAfter(loc[r].kind, resetInProgress)
    /\ UNCHANGED <<tickets, counters, services, seq, now, txOwner, txSnapshot, settings>>

\* the handler's steps after the arrival
FxStep(r) ==
    \/ FxWork(r)
    \/ FxWorkFails(r)
    \/ FxCommit(r)
    \/ FxCommitFails(r)
    \/ FxLog(r)
    \/ \E outcome \in LogOutcomes : FxLogSettles(r, outcome)
    \/ FxBroadcast(r)
    \/ CnReturn(r)

\* one request at a time
NextEffects ==
    \/ Tick
    \/ \E r \in Requests, ca \in Sessions :
          Quiet /\ FxArrive(r, "call-next", ca[1], ca[2], NULL, <<>>)
    \/ \E r \in Requests, s \in Services, p \in KioskPayloads :
          Quiet /\ FxArrive(r, "kiosk", NULL, NULL, s, p)
    \/ \E r \in Requests, s \in {1, 3}, p \in KioskPayloads :
          Quiet /\ FxArrive(r, "legacy-kiosk", NULL, NULL, s, p)
    \/ \E r \in Requests : Quiet /\ FxArrive(r, "reset", NULL, NULL, NULL, <<>>)
    \/ \E r \in Requests : FxStep(r)

SpecEffects == Init /\ [][NextEffects]_vars

\* ---- resets and kiosk creations that overlap ------------------------------
NextReset ==
    \/ \E r \in Requests : FxArrive(r, "reset", NULL, NULL, NULL, <<>>)
    \/ \E r \in Requests, p \in KioskPayloads : FxArrive(r, "kiosk", NULL, NULL, 1, p)
    \/ \E r \in Requests : FxStep(r)

SpecReset == Init /\ [][NextReset]_vars

\* the steps the handler takes by itself: the connection executes the
\* statements it was given and the event loop resumes the handler; when the
\* event-log write settles is up to the event log
FxProgress(r) ==
    \/ FxWork(r)
    \/ FxCommit(r)
    \/ FxLog(r)
    \/ FxBroadcast(r)
    \/ CnReturn(r)

SpecEffectsFair ==
    Init /\ [][NextEffects]_vars /\ \A r \in Requests : WF_vars(FxProgress(r))

\* ---- database/db.js: getSettings; admin: PUT /settings ----------------------
\* if (!forceRefresh && settingsCache && now - cacheTimestamp < CACHE_TTL_MS)
CacheServes(st, force, time) ==
    ~force /\ st.settingsCache # NULL /\ time - st.cacheTimestamp < CACHE_TTL_MS

\* function invalidateSettingsCache(): settingsCache = null; cacheTimestamp = 0
InvalidateSettingsCache(st) == [st EXCEPT !.settingsCache = NULL, !.cacheTimestamp = 0]

\* getSettings up to its await: a cache hit returns settingsCache and changes
\* nothing; otherwise const now = Date.now() is taken and the SELECT is issued
GetSettings(r, force) ==
    /\ settings.fetch[r].pc = "idle"
    /\ settings' = IF CacheServes(settings, force, now)
                   THEN [settings EXCEPT !.fetch[r].returned = settings.settingsCache]
                   ELSE [settings EXCEPT !.fetch[r] =
                            [pc |-> "fetching", start |-> now, map |-> NULL, returned |-> NULL]]
    /\ UNCHANGED <<tickets, counters, services, seq, now, txOwner, txSnapshot, pc, loc,
                   resetInProgress>>

\* fetchSettingsFromDb: SELECT key, value FROM settings runs on the connection
\* (it sees the rows as the connection has them, committed or not)
FetchRead(r) ==
    /\ settings.fetch[r].pc = "fetching"
    /\ settings' = [settings EXCEPT !.fetch[r].pc = "read", !.fetch[r].map = settings.rows]
    /\ UNCHANGED <<tickets, counters, services, seq, now, txOwner, txSnapshot, pc, loc,
                   resetInProgress>>

\* the callback of db.all resolves the promise and getSettings goes on after
\* its await: settingsCache = settings; cacheTimestamp = now; return settings
\* (the statement's completion reaches the event loop from a worker thread,
\* at a moment the code does not order against other statements' callbacks)
FetchResolve(r) ==
    /\ settings.fetch[r].pc = "read"
    /\ settings' = [settings EXCEPT !.settingsCache = settings.fetch[r].map,
                                    !.cacheTimestamp = settings.fetch[r].start,
                                    !.fetch[r] = [NoFetch EXCEPT !.returned = settings.fetch[r].map]]
    /\ UNCHANGED <<tickets, counters, services, seq, now, txOwner, txSnapshot, pc, loc,
                   resetInProgress>>

\* PUT /settings up to COMMIT: BEGIN TRANSACTION, INSERT ... ON CONFLICT(key)
\* DO UPDATE SET value = excluded.value for every update, COMMIT issued
PutSettings(v) ==
    /\ settings.put = "idle"
    /\ settings' = [settings EXCEPT !.rows = v, !.put = "written"]
    /\ UNCHANGED <<tickets, counters, services, seq, now, txOwner, txSnapshot, pc, loc,
                   resetInProgress>>

\* the callback of COMMIT: invalidateSettingsCache(); res.json(...)
PutCommitted ==
    /\ settings.put = "written"
    /\ settings' = [InvalidateSettingsCache(settings) EXCEPT !.put = "idle"]
    /\ UNCHANGED <<tickets, counters, services, seq, now, txOwner, txSnapshot, pc, loc,
                   resetInProgress>>

NextSettings ==
    \/ Tick
    \/ \E r \in Requests, force \in BOOLEAN : GetSettings(r, force)
    \/ \E r \in Requests : FetchRead(r)
    \/ \E r \in Requests : FetchResolve(r)
    \/ \E v \in SettingValues : PutSettings(v)
    \/ PutCommitted

SpecSettings == Init /\ [][NextSettings]_vars

\* ==== the claims ===========================================================

\* C1: for any interleaving of concurrent call-next requests, a call-next
\* writes its claim only on a ticket that is in state waiting at that
\* moment, and two requests never both hold a claim on the same ticket.
C1_NoDoubleClaim ==
    /\ [][\A r \in Requests :
            (pc[r] = "selected" /\ pc'[r] = "updated") =>
                (loc[r].pick \in DOMAIN tickets /\ tickets[loc[r].pick].state = "waiting")]_vars
    /\ [](\A r1, r2 \in Requests :
            (r1 # r2 /\ loc[r1].pick # NULL /\ loc[r2].pick # NULL) =>
                loc[r1].pick # loc[r2].pick)

\* C1 witness: a call-next has committed its claim while another request was
\* turned away
C1_Witness ==
    \E r1, r2 \in Requests :
        /\ r1 # r2
        /\ pc[r1] = "done" /\ loc[r1].status = 200
        /\ tickets[loc[r1].pick].state = "called"
        /\ pc[r2] = "done" /\ r1 \in loc[r2].inflight

\* C2: of two overlapping call-next requests against a service with exactly
\* one waiting ticket, one succeeds with that ticket and the other receives
\* 404 "No tickets waiting in queue".
C2_LoserGets404 ==
    \A r1, r2 \in Requests :
        ( /\ r1 # r2
          /\ pc[r1] = "done" /\ pc[r2] = "done"
          /\ r1 \in loc[r2].inflight
          /\ loc[r1].ticket = NULL /\ loc[r2].ticket = NULL
          /\ loc[r1].target # NULL /\ loc[r1].target = loc[r2].target
          /\ loc[r1].waiting = 1 /\ loc[r2].waiting = 1 )
        => \E w, l \in {r1, r2} :
              /\ w # l
              /\ loc[w].status = 200
              /\ loc[l].status = 404
              /\ loc[l].err = "No tickets waiting in queue"

\* C3: a call-next without ticketId never selects a ticket while a waiting
\* ticket of the same service has a higher priority, or the same priority
\* and an earlier created_at.
C3_PriorityThenFifo ==
    \A c \in Counters, a \in Agents, s \in ServiceIds \cup {NULL} :
        \A r \in CallNextResults(Store, c, a, s, NULL, now) :
            r.status = 200 =>
                \A o \in WaitingIn(tickets, tickets[r.ticket].service_id) :
                    \/ tickets[o].priority < tickets[r.ticket].priority
                    \/ /\ tickets[o].priority = tickets[r.ticket].priority
                       /\ tickets[r.ticket].created_at <= tickets[o].created_at

\* C4: every ticket's state is one of the five states; a called ticket has
\* counter_id and agent_id set; a waiting or recycled ticket has both NULL.
C4_TicketShape ==
    \A t \in DOMAIN tickets :
        /\ tickets[t].state \in {"waiting", "recycled", "called", "completed", "no_show"}
        /\ tickets[t].state = "called" =>
              (tickets[t].counter_id # NULL /\ tickets[t].agent_id # NULL)
        /\ tickets[t].state \in {"waiting", "recycled"} =>
              (tickets[t].counter_id = NULL /\ tickets[t].agent_id = NULL)

\* C4 witness: a ticket that was called and put back (by recycle or by
\* transfer) waits again while another ticket is called
C4_Witness ==
    \E t1, t2 \in DOMAIN tickets :
        /\ tickets[t1].state = "called"
        /\ tickets[t2].state = "waiting"
        /\ tickets[t2].created_at < now
        /\ \E c \in Counters : counters[c].state = "available" /\ counters[c].current_agent_id = 2

\* C5: every counter whose current_ticket_id is set is in state serving.
C5_CurrentTicketOnlyWhileServing ==
    \A c \in Counters :
        counters[c].current_ticket_id # NULL => counters[c].state = "serving"

\* C6: a counter's current_ticket_id references an existing ticket whose
\* counter_id is the counter and whose agent_id is the counter's
\* current_agent_id.
C6_CurrentTicketMatches ==
    \A c \in Counters :
        counters[c].current_ticket_id # NULL =>
            /\ counters[c].current_ticket_id \in DOMAIN tickets
            /\ tickets[counters[c].current_ticket_id].counter_id = c
            /\ tickets[counters[c].current_ticket_id].agent_id = counters[c].current_agent_id

\* the results of every lifecycle request that names ticket t
LifecycleResultsOn(t) ==
    UNION { CallNextResults(Store, c, a, NULL, t, now)
            \cup { CompleteResult(Store, t, c, a, now), RecallResult(Store, t, c, a, now),
                   NoShowResult(Store, t, c, a, now), RecycleResult(Store, t, c, a, 3) }
            \cup { TransferResult(Store, t, g, c, a, now) : g \in ServiceIds }
            : c \in Counters, a \in Agents }

\* C7: once a ticket is completed or no_show, no lifecycle request changes
\* its state or any counter on its behalf.
C7_TerminalStatesStay ==
    \A t \in DOMAIN tickets :
        tickets[t].state \in {"completed", "no_show"} =>
            \A r \in LifecycleResultsOn(t) :
                /\ t \in DOMAIN r.store.tickets
                /\ r.store.tickets[t].state = tickets[t].state
                /\ r.store.counters = counters

\* C8: a complete on a ticket that is already completed, by the counter and
\* agent it is assigned to, answers 400 and leaves the ticket (completed_at,
\* actual_wait, service_duration) and the counters as they are.
C8_SecondCompleteIs400 ==
    \A t \in DOMAIN tickets, c \in Counters, a \in Agents, time \in Times :
        (tickets[t].state = "completed" /\ Assigned(tickets, t, c, a) /\ time >= now) =>
            LET r == CompleteResult(Store, t, c, a, time)
            IN  /\ r.status = 400
                /\ r.store.tickets[t] = tickets[t]
                /\ r.store.counters = counters

\* C8 witness: a ticket was completed at an earlier time than now
C8_Witness ==
    \E t \in DOMAIN tickets :
        /\ tickets[t].state = "completed"
        /\ tickets[t].completed_at < now
        /\ Assigned(tickets, t, tickets[t].counter_id, tickets[t].agent_id)

\* C9: a successful call-next of t at counter c by agent a leaves t called
\* with counter_id c and agent_id a and c serving t; a successful complete
\* of t by (c, a) leaves t completed and c available without a ticket.
C9_CallThenComplete ==
    /\ \A c \in Counters, a \in Agents, s \in ServiceIds \cup {NULL}, tid \in TicketIds \cup {NULL} :
          \A r \in CallNextResults(Store, c, a, s, tid, now) :
              r.status = 200 =>
                  /\ r.store.tickets[r.ticket].state = "called"
                  /\ r.store.tickets[r.ticket].counter_id = c
                  /\ r.store.tickets[r.ticket].agent_id = a
                  /\ r.store.counters[c].state = "serving"
                  /\ r.store.counters[c].current_ticket_id = r.ticket
                  /\ LET r2 == CompleteResult(r.store, r.ticket, c, a, now)
                     IN  /\ r2.status = 200
                         /\ r2.store.tickets[r.ticket].state = "completed"
                         /\ r2.store.counters[c].state = "available"
                         /\ r2.store.counters[c].current_ticket_id = NULL
    /\ \A t \in TicketIds, c \in Counters, a \in Agents :
          LET r == CompleteResult(Store, t, c, a, now)
          IN  r.status = 200 =>
                  /\ r.store.tickets[t].state = "completed"
                  /\ r.store.counters[c].state = "available"
                  /\ r.store.counters[c].current_ticket_id = NULL

\* C9 witness: a ticket was called and then completed at a counter that is
\* now available, while the other counter serves a called ticket
C9_Witness ==
    \E t1, t2 \in DOMAIN tickets :
        /\ tickets[t1].state = "completed"
        /\ counters[tickets[t1].counter_id].state = "available"
        /\ counters[tickets[t1].counter_id].current_ticket_id = NULL
        /\ tickets[t2].state = "called"
        /\ counters[tickets[t2].counter_id].state = "serving"
        /\ counters[tickets[t2].counter_id].current_ticket_id = t2

\* the service whose prefix a ticket number carries: the service that issued it
IssuingService(number) == CHOOSE s \in Services : ServicePrefix(s) = number.prefix

\* C10: a successful transfer of t to T removes t's row, adds exactly one
\* row, in T, waiting, without counter and agent, with t's ticket_number,
\* priority and customer fields and with original_service_id the service
\* that first issued the ticket, and leaves the counter available without a
\* ticket.
C10_TransferMovesTicket ==
    \A t \in DOMAIN tickets, g \in ServiceIds, c \in Counters, a \in Agents :
        LET r == TransferResult(Store, t, g, c, a, now)
            added == DOMAIN r.store.tickets \ DOMAIN tickets
        IN  r.status = 200 =>
                /\ t \notin DOMAIN r.store.tickets
                /\ added = {r.ticket}
                /\ \A n \in added :
                      /\ r.store.tickets[n].service_id = g
                      /\ r.store.tickets[n].state = "waiting"
                      /\ r.store.tickets[n].counter_id = NULL
                      /\ r.store.tickets[n].agent_id = NULL
                      /\ r.store.tickets[n].ticket_number = tickets[t].ticket_number
                      /\ r.store.tickets[n].priority = tickets[t].priority
                      /\ r.store.tickets[n].customer = tickets[t].customer
                      /\ r.store.tickets[n].original_service_id =
                            IssuingService(tickets[t].ticket_number)
                /\ \A o \in DOMAIN tickets \ {t} : r.store.tickets[o] = tickets[o]
                /\ r.store.counters[c].state = "available"
                /\ r.store.counters[c].current_ticket_id = NULL

\* C10 witness: a ticket that was transferred once is called again in the
\* service it was moved to, so that a second transfer can be asked for
C10_Witness ==
    \E t \in DOMAIN tickets :
        /\ tickets[t].transferred_at # NULL
        /\ tickets[t].original_service_id # tickets[t].service_id
        /\ tickets[t].state = "called"
        /\ tickets[t].customer.name # NULL

\* C11: a successful recycle leaves the ticket waiting with counter_id,
\* agent_id, called_at and served_at NULL and the counter available without
\* a ticket; a recycle of a ticket that is assigned to the counter and agent
\* but is not called answers 400 and changes nothing.
C11_RecycleClearsAssignment ==
    \A t \in DOMAIN tickets, c \in Counters, a \in Agents :
        LET r == RecycleResult(Store, t, c, a, 3)
        IN  /\ r.status = 200 =>
                  /\ r.store.tickets[t].state = "waiting"
                  /\ r.store.tickets[t].counter_id = NULL
                  /\ r.store.tickets[t].agent_id = NULL
                  /\ r.store.tickets[t].called_at = NULL
                  /\ r.store.tickets[t].served_at = NULL
                  /\ r.store.counters[c].state = "available"
                  /\ r.store.counters[c].current_ticket_id = NULL
            /\ (Assigned(tickets, t, c, a) /\ tickets[t].state # "called") =>
                  (r.status = 400 /\ r.store = Store)

\* C11 witness: one ticket is called at its counter, so that its recycle
\* succeeds, and another is assigned to a counter and agent without being
\* called, so that its recycle is refused
C11_Witness ==
    \E t1, t2 \in DOMAIN tickets :
        /\ RecycleResult(Store, t1, tickets[t1].counter_id, tickets[t1].agent_id, 3).status = 200
        /\ tickets[t1].called_at < now
        /\ tickets[t2].state = "no_show"
        /\ RecycleResult(Store, t2, tickets[t2].counter_id, tickets[t2].agent_id, 3).status = 400

\* position values a recycle request may carry and that pass validation:
\* none, or a positive integer
ValidPositions == {NULL, 1, 2, 5}

C13_ErrorLeavesNoWrites ==
    \A r \in Requests :
        (pc[r] = "done" /\ loc[r].status >= 400 /\ ~loc[r].committed)
            => Store = loc[r].start

\* C14: while a request's transaction is open, a step that is not a step of
\* that request changes nothing in the store
C14_OpenTransactionIsIsolated ==
    [][(txOwner # NULL /\ txOwner' = txOwner /\ pc'[txOwner] = pc[txOwner])
          => Store' = Store]_vars

C16_SideEffectsFollowCommit ==
    \A r \in Requests :
        /\ loc[r].logged \in {"", "committed"}
        /\ loc[r].sent \in {"", "committed"}

\* C17: once the transaction of a lifecycle operation has committed, the
\* response is eventually sent, whether or not the event-log write settles
C17_ResponseDoesNotWaitForLog ==
    \A r \in Requests :
        (loc[r].kind = "call-next" /\ loc[r].committed /\ pc[r] # "done")
            ~> (pc[r] = "done")

\* C18: the tickets list of a snapshot holds each waiting or recycled ticket
\* of the service once and no other ticket, by falling priority and, among
\* equal priorities, by rising created_at
C18_SnapshotListsTheQueueInOrder ==
    \A s \in Services : \A q \in GetQueueSnapshot(tickets, s) :
        LET list == q.tickets
        IN  /\ {list[i].id : i \in 1..Len(list)} =
                  {t \in DOMAIN tickets : /\ tickets[t].service_id = s
                                          /\ tickets[t].state \in {"waiting", "recycled"}}
            /\ \A i, j \in 1..Len(list) : i # j => list[i].id # list[j].id
            /\ \A i, j \in 1..Len(list) : i < j =>
                  /\ list[i].priority >= list[j].priority
                  /\ list[i].priority = list[j].priority
                        => list[i].created_at <= list[j].created_at

\* two tickets wait in one service and the one created later, of higher
\* priority, comes first in the snapshot
C18_Witness ==
    \E s \in Services : \E q \in GetQueueSnapshot(tickets, s) :
        /\ Len(q.tickets) = 2
        /\ q.tickets[1].priority > q.tickets[2].priority
        /\ q.tickets[1].created_at > q.tickets[2].created_at

ResetInFlight(o) == loc[o].kind = "reset" /\ pc[o] \in {"begun", "worked", "committed"}

\* C20: a reset that arrives while another reset is in flight is answered
\* as skipped at once and executes no statement (store and transaction are
\* left alone), and no two resets have a transaction open at a time
C20_SecondResetIsSkipped ==
    /\ [](Cardinality({o \in Requests : loc[o].kind = "reset" /\ txOwner = o}) <= 1)
    /\ [](Cardinality({o \in Requests : ResetInFlight(o)}) <= 1)
    /\ [][\A r \in Requests :
            (/\ pc[r] = "idle"
             /\ pc'[r] # "idle"
             /\ loc'[r].kind = "reset"
             /\ \E o \in Requests \ {r} : ResetInFlight(o))
                => /\ pc'[r] = "done"
                   /\ loc'[r].status = 409
                   /\ loc'[r].err = "Reset already in progress"
                   /\ Store' = Store
                   /\ txOwner' = txOwner
                   /\ txSnapshot' = txSnapshot
                   /\ resetInProgress' = resetInProgress]_vars

\* a reset has been skipped while another reset has its transaction open
C20_Witness ==
    \E r, o \in Requests :
        /\ r # o
        /\ loc[r].kind = "reset"
        /\ pc[r] = "done"
        /\ loc[r].status = 409
        /\ ResetInFlight(o)
        /\ txOwner = o

\* C21: a reset that succeeded left no ticket row, current_ticket_id NULL on
\* every counter, the counters that were serving available and the others in
\* their state, and current_number 0 on every service; a reset that failed
\* left the store as it was
C21_ResetClearsTheQueues ==
    \A r \in Requests :
        (loc[r].kind = "reset" /\ pc[r] = "done")
            => IF loc[r].status < 400
               THEN /\ loc[r].committed
                    /\ loc[r].after.tickets = <<>>
                    /\ Store = loc[r].after
                    /\ \A c \in Counters :
                          /\ loc[r].after.counters[c].current_ticket_id = NULL
                          /\ loc[r].after.counters[c].state =
                                IF loc[r].start.counters[c].state = "serving"
                                THEN "available"
                                ELSE loc[r].start.counters[c].state
                    /\ \A s \in Services : loc[r].after.services[s].current_number = 0
               ELSE Store = loc[r].start

\* a reset has succeeded on a store with a ticket, a serving counter, an
\* offline counter and a service that had issued a number
C21_Witness ==
    \E r \in Requests :
        /\ loc[r].kind = "reset"
        /\ pc[r] = "done"
        /\ loc[r].status = 200
        /\ loc[r].start.tickets # <<>>
        /\ \E c \in Counters : loc[r].start.counters[c].state = "serving"
        /\ \E c \in Counters : loc[r].start.counters[c].state = "offline"
        /\ \E s \in Services : loc[r].start.services[s].current_number > 0

\* the startNumber and count values of the preset requests that are examined
PresetStarts == {0, 1, 10}
PresetCounts == {1, 2, 5}

\* C22: a preset that succeeds adds, for each number of n+1..n+k not yet in
\* the service, one waiting ticket without counter and agent, adds nothing
\* for a number that is there and changes no other row, counts inserted and
\* skipped numbers to k, and leaves current_number at max(previous, n + k);
\* (10, 5) on a service without tickets gives 011..015
C22_PresetFillsTheRange ==
    \A s \in Services, n \in PresetStarts, k \in PresetCounts :
        LET r == PresetResult(Store, s, n, k, 0, now)
            old == DOMAIN tickets
            new == DOMAIN r.store.tickets \ old
            missing == {m \in (n + 1)..(n + k) :
                          ~\E t \in old : /\ tickets[t].service_id = s
                                           /\ tickets[t].ticket_number = TicketNumber(s, m)}
        IN  r.status = 200 =>
              /\ \A t \in old : t \in DOMAIN r.store.tickets /\ r.store.tickets[t] = tickets[t]
              /\ \A m \in missing :
                    Cardinality({t \in new :
                        r.store.tickets[t].ticket_number = TicketNumber(s, m)}) = 1
              /\ \A t \in new :
                    /\ r.store.tickets[t].service_id = s
                    /\ r.store.tickets[t].state = "waiting"
                    /\ r.store.tickets[t].counter_id = NULL
                    /\ r.store.tickets[t].agent_id = NULL
                    /\ \E m \in missing : r.store.tickets[t].ticket_number = TicketNumber(s, m)
              /\ r.inserted = Cardinality(new)
              /\ r.inserted = Cardinality(missing)
              /\ r.inserted + r.skipped = k
              /\ r.store.services[s].current_number = Max(services[s].current_number, n + k)
              /\ \A o \in Services \ {s} : r.store.services[o] = services[o]
              /\ r.store.counters = counters
              /\ (n = 10 /\ k = 5 /\ ~\E t \in old : tickets[t].service_id = s)
                    => /\ {r.store.tickets[t].ticket_number : t \in new} =
                            {[prefix |-> ServicePrefix(s), digits |-> <<0, 1, d>>] : d \in 1..5}
                       /\ r.store.services[s].current_number >= 15

\* a preset of numbers 1 and 2 meets a service that holds 002 and has issued
\* 003: it inserts 001, skips 002 and keeps current_number
C22_Witness ==
    \E s \in Services :
        LET r == PresetResult(Store, s, 0, 2, 0, now)
        IN  /\ r.status = 200
            /\ r.inserted = 1
            /\ r.skipped = 1
            /\ services[s].current_number = 3
            /\ r.store.services[s].current_number = 3

\* the serviceId, startNumber and count values of the requests examined for
\* rejection
RejectedServiceIds == {-1, 0, 1, 2}
RejectedStarts == {-1, 0, 1}
RejectedCounts == {-1, 0, 1, 2, 501}

\* C23: a preset whose serviceId, startNumber or count is zero or negative,
\* or whose count is above 500, is rejected by the checks before the
\* transaction and changes nothing
C23_PresetRejectsBadParameters ==
    \A s \in RejectedServiceIds, n \in RejectedStarts, k \in RejectedCounts :
        (s <= 0 \/ n <= 0 \/ k <= 0 \/ k > 500)
            => /\ PresetValidation(s, n, k) # ""
               /\ PresetResult(Store, s, n, k, 0, now).status >= 400
               /\ PresetResult(Store, s, n, k, 0, now).store = Store

\* C24: no step of the system (kiosk creation, preset, lifecycle operation,
\* reset) lowers the current_number of a service
C24_CurrentNumberNeverDecreases ==
    [][\A s \in Services : services'[s].current_number >= services[s].current_number]_vars

\* C24, amended: a step lowers no current_number, unless it is a reset, which
\* deletes every ticket and sets every current_number to 0
C24_CurrentNumberFallsOnlyByReset ==
    [][\/ \A s \in Services : services'[s].current_number >= services[s].current_number
       \/ /\ tickets' = <<>>
          /\ seq' = 0
          /\ \A s \in Services : services'[s].current_number = 0]_vars

\* a preset and a kiosk creation have raised current_number to 3 and a
\* ticket of the service has been called
C24_Witness ==
    \E s \in Services :
        /\ services[s].current_number = 3
        /\ \E t \in DOMAIN tickets : tickets[t].service_id = s /\ tickets[t].state = "called"

\* C25: a kiosk creation, by either version of the route, that succeeds
\* inserts a waiting ticket numbered prefix + padded
\* max(current_number, range_start - 1) + 1 and sets current_number to that
\* number; one whose number would pass range_end fails with 409 and leaves
\* the store as it is
C25_KioskIssuesNextNumberInRange ==
    \A s \in Services, p \in KioskPayloads :
        \A r \in {KioskCreateResult(Store, s, p, now), LegacyKioskResult(Store, s, p, now)} :
            LET next == Max(services[s].current_number, RangeStart(s) - 1) + 1
            IN  IF ServiceActive(s) /\ next > RangeEnd(s)
                THEN r.status = 409 /\ r.store = Store
                ELSE r.status < 400 =>
                       /\ r.status = 201
                       /\ r.ticket \notin DOMAIN tickets
                       /\ r.store.tickets[r.ticket].ticket_number = TicketNumber(s, next)
                       /\ r.store.tickets[r.ticket].state = "waiting"
                       /\ r.store.tickets[r.ticket].service_id = s
                       /\ r.store.services[s].current_number = next
                       /\ ~NumberTaken(tickets, s, TicketNumber(s, next))

\* C26: the actual_wait and the service_duration of a completed ticket are
\* NULL or a whole number of seconds that is not negative
C26_WaitAndDurationNotNegative ==
    \A t \in DOMAIN tickets :
        tickets[t].state = "completed"
            => /\ tickets[t].actual_wait \in {<<>>} \cup {<<v>> : v \in 0..MaxTime}
               /\ tickets[t].service_duration \in {<<>>} \cup {<<v>> : v \in 0..MaxTime}

\* the agentId values of the call-next requests examined for their errors
CallNextAgents == Agents \cup {3}

\* C27: a call-next that fails because no service can be found for it or
\* because the service has no waiting ticket fails with 404, one that fails
\* because the agent has no right to the service fails with 403, and neither
\* changes a ticket or a counter
C27_CallNextErrorStatuses ==
    \A c \in Counters, a \in CallNextAgents, s \in ServiceIds \cup {NULL},
       tid \in TicketIds \cup {NULL} :
        \A r \in CallNextResults(Store, c, a, s, tid, now) :
            /\ r.err \in {"Requested service not found",
                          "Unable to determine service for agent",
                          "No tickets waiting in queue"}
                  => r.status = 404 /\ r.store = Store
            /\ r.err \in {"Agent is not assigned to this service",
                          "Agent is not authorized for this service"}
                  => r.status = 403 /\ r.store = Store

\* C29: a call-next that names a ticket succeeds only if the ticket is
\* waiting and the agent is assigned to its service, and then calls that
\* ticket; it fails with 404 when the ticket is absent or not waiting, with
\* 403 when the agent is not assigned, and then changes nothing
C29_CherryPickGuards ==
    \A c \in Counters, a \in CallNextAgents, s \in ServiceIds \cup {NULL}, tid \in TicketIds :
        \A r \in CallNextResults(Store, c, a, s, tid, now) :
            IF ~(tid \in DOMAIN tickets /\ tickets[tid].state = "waiting")
            THEN r.status = 404 /\ r.store = Store
            ELSE IF tickets[tid].service_id \notin SeqRange(AgentServices(a))
            THEN r.status = 403 /\ r.store = Store
            ELSE /\ r.status = 200
                 /\ r.ticket = tid
                 /\ r.store.tickets[tid].state = "called"
                 /\ r.store.tickets[tid].counter_id = c
                 /\ r.store.tickets[tid].agent_id = a

\* ticket 2 of service 1 has been called by agent 1 while the older ticket 1
\* of that service waits: naming ticket 2 again gives 404, agent 2, who has
\* no assignment, is refused ticket 1 with 403, and agent 1 may call it
C29_Witness ==
    /\ DOMAIN tickets = {1, 2}
    /\ tickets[1].state = "waiting"
    /\ tickets[1].service_id = 1
    /\ tickets[2].state = "called"
    /\ tickets[2].service_id = 1
    /\ tickets[2].agent_id = 1
    /\ tickets[1].created_at < tickets[2].created_at
    /\ \A r \in CallNextResults(Store, 1, 1, NULL, 2, now) : r.status = 404
    /\ \A r \in CallNextResults(Store, 2, 2, NULL, 1, now) : r.status = 403
    /\ \A r \in CallNextResults(Store, 1, 1, NULL, 1, now) : r.status = 200

\* counterId values that are the id of no counter row
MissingCounters == {3}

\* C28: a call-next that names a counter that does not exist fails and
\* leaves no ticket called that was not called before
C28_CallNextNeedsExistingCounter ==
    \A c \in MissingCounters, a \in Agents, s \in ServiceIds \cup {NULL},
       tid \in TicketIds \cup {NULL} :
        \A r \in CallNextResults(Store, c, a, s, tid, now) :
            /\ r.status >= 400
            /\ \A t \in DOMAIN r.store.tickets :
                  r.store.tickets[t].state = "called"
                      => t \in DOMAIN tickets /\ tickets[t] = r.store.tickets[t]

\* C30: a request to POST /api/ticket/state, /requeue, /recycle, /park or
\* /no-show for a ticket is answered without an error and has updated the
\* ticket
C30_LegacyTicketRoutesAct ==
    \A route \in LegacyTicketRoutes, t \in DOMAIN tickets :
        LET r == RejectLegacyTicketRoute(Store, route, t)
        IN  /\ r.status < 400
            /\ r.store.tickets[t] # tickets[t]

\* C31: call-next resolves the service by the fallback chain requested
\* ticket, requested service, agent's first assignment, counter default
\* service, first active service: a request naming a waiting ticket calls that
\* ticket, and otherwise the first step of the chain that yields an active
\* service is the service whose queue the request works on (requests refused
\* with 403 for want of an assignment aside).
C31_ServiceResolutionFallsBack ==
    \A c \in Counters, a \in CallNextAgents, s \in ServiceIds \cup {NULL} :
        LET asg == AgentServices(a)
            steps == <<IF s # NULL THEN ActiveService(s) ELSE NULL,
                       IF Len(asg) > 0 THEN ActiveService(asg[1]) ELSE NULL,
                       ActiveService(DefaultService(c)),
                       FirstActiveService>>
            yields == {i \in 1..4 : steps[i] # NULL}
            chosen == steps[CHOOSE i \in yields : \A j \in yields : i <= j]
        IN  yields # {} =>
                \A r \in CallNextResults(Store, c, a, s, NULL, now) :
                    \/ r.status = 403
                    \/ r.status = 404 /\ WaitingIn(tickets, chosen) = {}
                    \/ r.status = 200 /\ tickets[r.ticket].service_id = chosen

\* C32: every ticket in state called with counter_id = c sits on a counter c
\* that is serving and whose current_ticket_id is that ticket's id.
C32_CalledTicketIsOnItsCounter ==
    \A t \in DOMAIN tickets :
        (tickets[t].state = "called" /\ tickets[t].counter_id \in DOMAIN counters) =>
            /\ counters[tickets[t].counter_id].state = "serving"
            /\ counters[tickets[t].counter_id].current_ticket_id = t

\* C33: a counter serves at most one ticket at a time: no two tickets in state
\* called carry the same counter_id.
C33_OneCalledTicketPerCounter ==
    \A t, u \in DOMAIN tickets :
        (/\ tickets[t].state = "called"
         /\ tickets[u].state = "called"
         /\ tickets[t].counter_id # NULL
         /\ tickets[t].counter_id = tickets[u].counter_id) => t = u

\* C34: a call-next naming a serviceId succeeds only if the agent is assigned
\* to that service; an agent without that assignment (an agent with no
\* assignments at all included) asking for an active service gets 403 and no
\* ticket is called.
C34_RequestedServiceNeedsAssignment ==
    \A c \in Counters, a \in CallNextAgents, s \in ServiceIds :
        \A r \in CallNextResults(Store, c, a, s, NULL, now) :
            /\ r.status = 200 => s \in SeqRange(AgentServices(a))
            /\ (ActiveService(s) # NULL /\ s \notin SeqRange(AgentServices(a))) =>
                   (r.status = 403 /\ r.store = Store)

\* C35: no operation puts a ticket in state recycled: no row of the store is
\* recycled, so every entry of a queue snapshot is a waiting ticket with its
\* recycled flag false, and call-next naming it finds it available (it is
\* called for an agent assigned to its service, and never answered 404).
C35_NoTicketIsRecycled ==
    /\ \A t \in DOMAIN tickets : tickets[t].state # "recycled"
    /\ \A s \in Services : \A snap \in GetQueueSnapshot(tickets, s) :
           \A i \in 1..Len(snap.tickets) :
               LET e == snap.tickets[i]
               IN  /\ e.state = "waiting"
                   /\ ~e.isRecycled
                   /\ \A ca \in Sessions :
                          LET sel == SelectTicket(tickets, ca[1], ca[2], NULL, e.id)
                          IN  /\ sel.status # 404
                              /\ s \in SeqRange(AgentServices(ca[2])) =>
                                     (sel.status = 200 /\ sel.picks = {e.id})

\* a ticket is back in its queue: it is listed in the snapshot of service 1
\* while counter 1, which agent 1 has worked at, is available again
C35_Witness ==
    /\ DOMAIN tickets = {1}
    /\ tickets[1].state = "waiting"
    /\ tickets[1].service_id = 1
    /\ counters[1].state = "available"
    /\ counters[1].current_agent_id = 1
    /\ \E snap \in GetQueueSnapshot(tickets, 1) :
           Len(snap.tickets) = 1 /\ snap.tickets[1].id = 1 /\ ~snap.tickets[1].isRecycled

\* C36: between two resets no two ticket rows present in the store at the same
\* time carry the same ticket_number: the rows of every reachable store, and
\* of the store every preset request leaves behind, have distinct numbers.
C36_TicketNumbersAreUnique ==
    LET Distinct(tk) ==
            \A t, u \in DOMAIN tk : tk[t].ticket_number = tk[u].ticket_number => t = u
    IN  /\ Distinct(tickets)
        /\ \A s \in Services, nk \in PresetRanges :
               Distinct(PresetResult(Store, s, nk[1], nk[2], 0, now).store.tickets)

\* C37: once a settings update has completed and invalidateSettingsCache has
\* been called (no update is under way), a getSettings call that is served
\* from the cache gets the values the settings table holds, never the values
\* of before the update.
C37_NoStaleSettingsAfterInvalidate ==
    \A force \in BOOLEAN :
        (settings.put = "idle" /\ CacheServes(settings, force, now)) =>
            settings.settingsCache = settings.rows

\* C38: withTransaction issues ROLLBACK only for a transaction whose own BEGIN
\* succeeded: a request whose BEGIN fails (another request's transaction is
\* open on the connection) ends with 500 and leaves the open transaction and
\* the store as they are; a transaction is ended only by the request that
\* began it; and a request whose BEGIN succeeded ends in one step that closes
\* its own transaction, by COMMIT (status 200, its writes kept) or by ROLLBACK
\* (the store as it was at its BEGIN).
C38_RollbackOnlyAfterOwnBegin ==
    [][\A r \in Requests :
          /\ (pc[r] = "idle" /\ pc'[r] = "done") =>
                 /\ txOwner \notin {NULL, r}
                 /\ loc'[r].status = 500
                 /\ UNCHANGED <<txOwner, txSnapshot, tickets, counters, services, seq>>
          /\ (txOwner = r /\ txOwner' # r) =>
                 /\ InFlight(r)
                 /\ pc'[r] = "done"
                 /\ \A o \in Requests \ {r} : pc'[o] = pc[o]
          /\ (InFlight(r) /\ pc'[r] = "done") =>
                 /\ txOwner = r
                 /\ txOwner' = NULL
                 /\ IF loc'[r].status = 200
                    THEN UNCHANGED <<tickets, counters, services, seq>>
                    ELSE <<tickets, counters, services, seq>>' =
                            <<txSnapshot.tickets, txSnapshot.counters,
                              txSnapshot.services, txSnapshot.seq>>]_vars

\* request 2 has failed at BEGIN while request 1, which has called its ticket,
\* still holds the open transaction
C38_Witness ==
    /\ pc[1] = "updated"
    /\ txOwner = 1
    /\ pc[2] = "done"
    /\ loc[2].status = 500
    /\ loc[2].err = "cannot start a transaction within a transaction"
    /\ tickets[loc[1].pick].state = "called"
    /\ txSnapshot.tickets[loc[1].pick].state = "waiting"

\* C39: the reset-in-progress flag is true exactly while a non-skipped
\* performSystemReset is running; the step that ends such a reset (commit and
\* side effects done, failure in the transaction, failure after the commit)
\* clears it, a skipped call leaves it as it is, and so a reset that arrives
\* while no reset is running is never skipped, whatever failed before.
C39_FlagTracksRunningReset ==
    /\ [](resetInProgress <=> \E o \in Requests : ResetInFlight(o))
    /\ []((\A o \in Requests : ~ResetInFlight(o)) => ~ResetSkips("reset", resetInProgress))
    /\ [][\A r \in Requests :
            /\ (ResetInFlight(r) /\ pc'[r] = "done") => ~resetInProgress'
            /\ (/\ pc[r] = "idle"
                /\ pc'[r] = "done"
                /\ loc'[r].kind = "reset"
                /\ loc'[r].status = 409) => (resetInProgress /\ resetInProgress')]_vars

\* a reset has failed and rolled back, and a later reset is running (not
\* skipped) with the flag set
C39_Witness ==
    \E r, o \in Requests :
        /\ r # o
        /\ loc[r].kind = "reset"
        /\ pc[r] = "done"
        /\ loc[r].status = 500
        /\ ~loc[r].committed
        /\ ResetInFlight(o)
        /\ txOwner = o
        /\ resetInProgress

\* C40: the ticket-transferred event of a successful transfer reports as
\* fromServiceId the service the ticket was in immediately before that
\* transfer, also when the ticket had been transferred before.
C40_EventNamesTheServiceLeft ==
    \A t \in DOMAIN tickets, g \in ServiceIds, c \in Counters, a \in Agents :
        TransferResult(Store, t, g, c, a, now).status = 200 =>
            /\ TicketTransferredEvent(Store, t, g, now).fromServiceId = tickets[t].service_id
            /\ TicketTransferredEvent(Store, t, g, now).toServiceId = g

====
